---- MODULE Spec2Model ----
(***************************************************************************)
(* A model of the ODE solver window of script.py (class ODEGUI).           *)
(*                                                                         *)
(* The text of an entry widget is a sequence of one-character strings, so  *)
(* that split, strip, float and the tokenising done by sympify are         *)
(* computed on the characters.  A callback of the window is a sequence of  *)
(* steps; pc is the position of the running callback ("idle" when the      *)
(* event loop waits for the next click).                                   *)
(***************************************************************************)
EXTENDS Integers, Sequences, FiniteSets, TLC

(***************************************************************************)
(* Bounds of the model.                                                    *)
(***************************************************************************)
\* the number of times the user retypes a field or loads a preset
MaxEdits == 2
\* the number of Examples windows the user opens
MaxWindows == 1

(***************************************************************************)
(* Texts.                                                                  *)
(***************************************************************************)
DefaultEq == <<"d", "y", "/", "d", "t", " ", "=", " ", "-", "a", "*", "y", " ", "+", " ", "s", "i", "n", "(", "b", "*", "t", ")">>
DefaultIc == <<"1", ".", "0">>
DefaultTime == <<"0", ",", " ", "1", "0">>

DecayEq == <<"d", "y", "/", "d", "t", " ", "=", " ", "-", "a", "*", "y">>
HarmonicEq == <<"d", "y", "/", "d", "t", " ", "=", " ", "-", "k", "*", "y">>
ForcedEq == <<"d", "y", "/", "d", "t", " ", "=", " ", "-", "k", "*", "y", " ", "+", " ", "s", "i", "n", "(", "b", "*", "t", ")">>
LogisticEq == <<"d", "y", "/", "d", "t", " ", "=", " ", "c", "*", "y", "*", "(", "1", " ", "-", " ", "y", ")">>

\* texts the user types into the equation field
NoEqualsEq == <<"-", "a", "*", "y">>
TwoEqualsEq == <<"d", "y", "/", "d", "t", " ", "=", " ", "-", "a", "*", "y", " ", "=", " ", "0">>
DanglingEq == <<"d", "y", "/", "d", "t", " ", "=", " ", "-", "a", "*">>
EqInputs == {DecayEq, NoEqualsEq, TwoEqualsEq, DanglingEq}

\* texts the user types into the time span field
TimeInputs ==
  { <<"0", ",", " ", "5">>,
    <<"5">>,
    <<"0", ",", " ", "5", ",", " ", "9">>,
    <<"0", ",", " ", "x">>,
    <<"0", ",">> }

\* texts the user types into the initial condition field
IcInputs == { <<"0", ".", "1">>, <<"x">> }

\* texts the user types into a parameter field
ParamInputs == { <<"2", ".", "0">>, <<>>, <<"x">> }

Letters == {"a", "b", "c", "d", "i", "k", "n", "s", "t", "x", "y"}
Digits == {"0", "1", "2", "3", "4", "5", "6", "7", "8", "9"}

DigitVal(c) ==
  CASE c = "0" -> 0 [] c = "1" -> 1 [] c = "2" -> 2 [] c = "3" -> 3
    [] c = "4" -> 4 [] c = "5" -> 5 [] c = "6" -> 6 [] c = "7" -> 7
    [] c = "8" -> 8 [] c = "9" -> 9

(***************************************************************************)
(* Arguments are passed by value: ByValue(x, F) is F applied to the value  *)
(* of x, which is computed once, before F is.                              *)
(***************************************************************************)
ByValue(x, F(_)) == CHOOSE r \in { F(v) : v \in {x} } : TRUE

(***************************************************************************)
(* str: the operations of Python's str the program uses.                   *)
(***************************************************************************)
\* c in s
Contains(s, c) == \E i \in 1..Len(s) : s[i] = c

\* the index of the first c in s at or after i, Len(s) + 1 when there is none
RECURSIVE Find(_, _, _)
Find(s, c, i) ==
  IF i > Len(s) THEN Len(s) + 1
  ELSE IF s[i] = c THEN i
  ELSE Find(s, c, i + 1)

\* s.split(c): the pieces of s between the occurrences of c, all of them
RECURSIVE Split(_, _)
Split(text, c) ==
  ByValue(text, LAMBDA s :
    LET j == Find(s, c, 1) IN
    IF j > Len(s) THEN <<s>>
    ELSE <<SubSeq(s, 1, j - 1)>> \o Split(SubSeq(s, j + 1, Len(s)), c))

RECURSIVE LStrip(_)
LStrip(text) ==
  ByValue(text, LAMBDA s :
    IF s # <<>> /\ s[1] = " " THEN LStrip(Tail(s)) ELSE s)

RECURSIVE RStrip(_)
RStrip(text) ==
  ByValue(text, LAMBDA s :
    IF s # <<>> /\ s[Len(s)] = " " THEN RStrip(SubSeq(s, 1, Len(s) - 1)) ELSE s)

\* s.strip()
Strip(s) == RStrip(LStrip(s))

(***************************************************************************)
(* float(s).  A float is kept exactly, as num / 10^scale in lowest form,   *)
(* so that "1", "1.0" and " 1.00" are one value.                           *)
(***************************************************************************)
\* the number the digits of s spell, the point skipped
DigitsVal(text) ==
  ByValue(text, LAMBDA s :
    LET D[i \in 0..Len(s)] ==
          IF i = 0 THEN 0
          ELSE IF s[i] = "." THEN D[i - 1]
          ELSE 10 * D[i - 1] + DigitVal(s[i])
    IN D[Len(s)])

RECURSIVE Normal(_, _)
Normal(m, k) ==
  ByValue(m, LAMBDA n :
    IF k > 0 /\ n % 10 = 0 THEN Normal(n \div 10, k - 1) ELSE [num |-> n, scale |-> k])

\* the unsigned decimal literals float accepts: digits, at most one point,
\* at least one digit
IsDecimal(text) ==
  ByValue(text, LAMBDA s :
    LET p == Find(s, ".", 1) IN
    /\ \A i \in 1..Len(s) : i # p => s[i] \in Digits
    /\ \E i \in 1..Len(s) : i # p)

\* the value of such a literal
DecimalVal(text) ==
  ByValue(text, LAMBDA s :
    LET p == Find(s, ".", 1)
        frac == IF p > Len(s) THEN 0 ELSE Len(s) - p
    IN Normal(DigitsVal(s), frac))

Unsigned(s) == IF s # <<>> /\ s[1] \in {"-", "+"} THEN Tail(s) ELSE s

\* whether float(s) returns (it raises ValueError otherwise)
IsFloat(s) == IsDecimal(Unsigned(Strip(s)))

\* float(s), for a text float accepts
FloatOf(text) ==
  ByValue(Strip(text), LAMBDA b :
    LET v == DecimalVal(Unsigned(b)) IN
    IF b[1] = "-" THEN [num |-> 0 - v.num, scale |-> v.scale] ELSE v)

(***************************************************************************)
(* sympify, subs and lambdify, as far as the program depends on them: an   *)
(* expression is the sequence of its tokens.  sympify fails on a text that *)
(* is no expression; it does not simplify here.                            *)
(***************************************************************************)
ParamNames == {"a", "b", "c", "k"}

\* the names sympify binds to functions (those the help text lists that the
\* letters of the model can spell)
SympyFunctions == { <<"s", "i", "n">> }

IdTok(name) == [k |-> "id", name |-> name, num |-> 0, scale |-> 0]
NumTok(v) == [k |-> "num", name |-> <<>>, num |-> v.num, scale |-> v.scale]
OpTok(c) == [k |-> "op", name |-> <<c>>, num |-> 0, scale |-> 0]
BadTok == [k |-> "bad", name |-> <<>>, num |-> 0, scale |-> 0]

\* the length of the longest run of characters of cs in s that starts at i
RECURSIVE Run(_, _, _)
Run(s, i, cs) ==
  IF i <= Len(s) /\ s[i] \in cs THEN 1 + Run(s, i + 1, cs) ELSE 0

RECURSIVE Tokenize(_)
Tokenize(text) ==
  ByValue(text, LAMBDA s :
    IF s = <<>> THEN <<>>
    ELSE IF s[1] = " " THEN Tokenize(Tail(s))
    ELSE IF s[1] \in Letters THEN
      LET n == Run(s, 1, Letters) IN
      <<IdTok(SubSeq(s, 1, n))>> \o Tokenize(SubSeq(s, n + 1, Len(s)))
    ELSE IF s[1] \in Digits \cup {"."} THEN
      LET n == Run(s, 1, Digits \cup {"."})
          w == SubSeq(s, 1, n)
      IN <<IF IsDecimal(w) THEN NumTok(DecimalVal(w)) ELSE BadTok>>
           \o Tokenize(SubSeq(s, n + 1, Len(s)))
    ELSE IF s[1] \in {"+", "-", "*", "/", "(", ")"} THEN
      <<OpTok(s[1])>> \o Tokenize(Tail(s))
    ELSE <<BadTok>> \o Tokenize(Tail(s)))

IsOp(tok, c) == tok.k = "op" /\ tok.name = <<c>>

\* whether the tokens ts from position i on complete an expression, when an
\* operand is expected next (operand = TRUE) or an operator is, inside
\* depth open parentheses
RECURSIVE WellFormed(_, _, _, _)
WellFormed(ts, i, operand, depth) ==
  IF i > Len(ts) THEN ~operand /\ depth = 0
  ELSE
    LET tok == ts[i] IN
    IF operand THEN
      CASE tok.k = "num" -> WellFormed(ts, i + 1, FALSE, depth)
        [] tok.k = "id" ->
             IF i < Len(ts) /\ IsOp(ts[i + 1], "(")
               \* a call: a parameter is a Symbol, which cannot be called
               THEN /\ ~(Len(tok.name) = 1 /\ tok.name[1] \in ParamNames)
                    /\ WellFormed(ts, i + 2, TRUE, depth + 1)
               ELSE WellFormed(ts, i + 1, FALSE, depth)
        [] IsOp(tok, "(") -> WellFormed(ts, i + 1, TRUE, depth + 1)
        [] IsOp(tok, "-") \/ IsOp(tok, "+") -> WellFormed(ts, i + 1, TRUE, depth)
        [] OTHER -> FALSE
    ELSE
      CASE IsOp(tok, "*") /\ i < Len(ts) /\ IsOp(ts[i + 1], "*") ->
             WellFormed(ts, i + 2, TRUE, depth)
        [] IsOp(tok, "+") \/ IsOp(tok, "-") \/ IsOp(tok, "*") \/ IsOp(tok, "/") ->
             WellFormed(ts, i + 1, TRUE, depth)
        [] IsOp(tok, ")") -> depth > 0 /\ WellFormed(ts, i + 1, FALSE, depth - 1)
        [] OTHER -> FALSE

\* whether sympify(rhs) returns an expression (it raises otherwise)
SympifyOk(rhs) == \E ts \in {Tokenize(rhs)} : WellFormed(ts, 1, TRUE, 0)

\* sympify(rhs, locals=params), for a text it accepts
Sympify(rhs) == Tokenize(rhs)

\* a token of expr.subs(values)
SubsTok(tok, values) ==
  IF tok.k = "id" /\ Len(tok.name) = 1 /\ tok.name[1] \in DOMAIN values
    THEN NumTok(values[tok.name[1]])
    ELSE tok

\* expr.subs(values): values maps parameter names to floats
Subs(expr, values) ==
  ByValue(<<expr, values>>, LAMBDA ev :
    [i \in 1..Len(ev[1]) |-> SubsTok(ev[1][i], ev[2])])

\* the names the function lambdify((t, y), expr) builds leaves unbound: a call
\* of it raises NameError when there is one
FreeNames(expr) ==
  { expr[i].name : i \in { j \in 1..Len(expr) :
       /\ expr[j].k = "id"
       /\ expr[j].name \notin SympyFunctions \cup { <<"t">>, <<"y">> } } }

(***************************************************************************)
(* The window.                                                             *)
(***************************************************************************)
VARIABLES
  eq_entry,        \* the text of the equation field
  ic_entry,        \* the text of the initial condition field
  time_entry,      \* the text of the time span field
  param_entries,   \* the text of each parameter field
  ax,              \* the chart
  ex_wins,         \* the Examples windows open
  pc,              \* the position of the running callback, "idle" between clicks
  t_span, y0, rhs, rhs_func, sol,   \* the locals of solve and parse_equation
  edits,           \* the edits made so far
  \* what the callback that ran last did, recorded for the properties below
  last,            \* the callback
  loaded,          \* the preset it loaded, 0 when none
  trace,           \* the steps of solve it went through
  shown,           \* the error messages it showed
  fault,           \* the class of the exception raised in it, "none" when none
  raised,          \* the class of the exception that left it, "none" when none
  ax0,             \* the chart when it started
  last_ok          \* the lines drawn by the most recent Solve that succeeded

fields == <<eq_entry, ic_entry, time_entry, param_entries>>
locals == <<t_span, y0, rhs, rhs_func, sol>>
record == <<last, loaded, trace, shown, fault, raised, ax0>>
vars == <<fields, ax, ex_wins, pc, locals, edits, record, last_ok>>

default_params ==
  [n \in ParamNames |->
     CASE n = "a" -> <<"0", ".", "5">>
       [] n = "b" -> <<"1", ".", "0">>
       [] n = "c" -> <<"0", ".", "8">>
       [] n = "k" -> <<"1", ".", "0">>]

NumPoints == 1000

\* ax.clear(): no lines, no title, no labels, no legend, the grid off
AxClear(a) ==
  [lines |-> <<>>, title |-> "", grid |-> FALSE,
   xlabel |-> "", ylabel |-> "", legend |-> FALSE]

\* the chart create_plot_area builds: new axes, titled, with the grid on
create_plot_area ==
  [lines |-> <<>>, title |-> "Solution Plot", grid |-> TRUE,
   xlabel |-> "", ylabel |-> "", legend |-> FALSE]

\* clear_plot, were the title and the grid not set again
clear_plot_untitled(a) == AxClear(a)

\* the chart after clear_plot
clear_plot(a) ==
  [AxClear(a) EXCEPT !.title = "Solution Plot", !.grid = TRUE]

\* ax.plot(sol.t, sol.y[0], label=...): the line of the solution s
Line(s) == [data |-> s, label |-> "Numerical Solution"]

\* the drawing step of solve, were the axes not cleared first
update_plot_keep(a, s) ==
  [a EXCEPT !.lines = Append(a.lines, Line(s)),
            !.xlabel = "Time (t)", !.ylabel = "y(t)", !.legend = TRUE]

\* the chart after solve has drawn the solution s
update_plot(a, s) ==
  LET c == AxClear(a) IN
  [c EXCEPT !.lines = Append(c.lines, Line(s)),
            !.xlabel = "Time (t)", !.ylabel = "y(t)", !.legend = TRUE]

\* show_error(message), after the messages sh: one more message shown
show_error(sh, prefix, detail) == Append(sh, [prefix |-> prefix, detail |-> detail])

NoFloat == [num |-> 0, scale |-> 0]
NoFunc == [none |-> TRUE, expr |-> <<>>]
NoSol == [f |-> <<>>, y0 |-> NoFloat, t0 |-> NoFloat, tf |-> NoFloat, n |-> 0]

Init ==
  /\ eq_entry = DefaultEq
  /\ ic_entry = DefaultIc
  /\ time_entry = DefaultTime
  /\ param_entries = default_params
  /\ ax = create_plot_area
  /\ ex_wins = 0
  /\ pc = "idle"
  /\ t_span = <<>> /\ y0 = NoFloat /\ rhs = <<>> /\ rhs_func = NoFunc /\ sol = NoSol
  /\ edits = 0
  /\ last = "start" /\ loaded = 0 /\ trace = <<>> /\ shown = <<>>
  /\ fault = "none" /\ raised = "none" /\ ax0 = create_plot_area
  /\ last_ok = <<>>

\* callbacks served at any time, as they would be were solve run on a thread
AnyTime == TRUE

\* the event loop runs one callback at a time, each to its end: a click is
\* served only when no callback is running
Idle == pc = "idle"

\* a callback starts: nothing is recorded of it yet
Started(name, idx) ==
  /\ last' = name
  /\ loaded' = idx
  /\ trace' = <<>>
  /\ shown' = <<>>
  /\ fault' = "none"
  /\ raised' = "none"
  /\ ax0' = ax

Begin(name) == Started(name, 0)

(***************************************************************************)
(* The user retypes a field.                                               *)
(***************************************************************************)
EditEquation(text) ==
  /\ Idle /\ edits < MaxEdits /\ text # eq_entry
  /\ eq_entry' = text
  /\ edits' = edits + 1
  /\ Begin("edit")
  /\ UNCHANGED <<ic_entry, time_entry, param_entries, ax, ex_wins, pc, locals, last_ok>>

EditInitialCondition(text) ==
  /\ Idle /\ edits < MaxEdits /\ text # ic_entry
  /\ ic_entry' = text
  /\ edits' = edits + 1
  /\ Begin("edit")
  /\ UNCHANGED <<eq_entry, time_entry, param_entries, ax, ex_wins, pc, locals, last_ok>>

EditTimeSpan(text) ==
  /\ Idle /\ edits < MaxEdits /\ text # time_entry
  /\ time_entry' = text
  /\ edits' = edits + 1
  /\ Begin("edit")
  /\ UNCHANGED <<eq_entry, ic_entry, param_entries, ax, ex_wins, pc, locals, last_ok>>

EditParameter(name, text) ==
  /\ Idle /\ edits < MaxEdits /\ text # param_entries[name]
  /\ param_entries' = [param_entries EXCEPT ![name] = text]
  /\ edits' = edits + 1
  /\ Begin("edit")
  /\ UNCHANGED <<eq_entry, ic_entry, time_entry, ax, ex_wins, pc, locals, last_ok>>

(***************************************************************************)
(* Clear.                                                                  *)
(***************************************************************************)
ClearPlot ==
  /\ Idle
  /\ ax' = clear_plot(ax)
  /\ Begin("clear")
  /\ UNCHANGED <<fields, ex_wins, pc, locals, edits, last_ok>>

(***************************************************************************)
(* Examples.                                                               *)
(***************************************************************************)
Preset(name, eq, params, ic, tspan) ==
  [name |-> name, eq |-> eq, params |-> params, ic |-> ic, tspan |-> tspan]

\* the presets, were the last two fields of Logistic Growth exchanged
examples_shifted ==
  << Preset("Exponential Decay", DecayEq,
            [n \in {"a"} |-> <<"0", ".", "5">>],
            <<"1", ".", "0">>, <<"0", ",", " ", "5">>),
     Preset("Harmonic Oscillator", HarmonicEq,
            [n \in {"k"} |-> <<"1", ".", "0">>],
            <<"0", ".", "0">>, <<"0", ",", " ", "1", "0">>),
     Preset("Forced Oscillator", ForcedEq,
            [n \in {"k", "b"} |-> IF n = "k" THEN <<"1", ".", "0">> ELSE <<"3", ".", "0">>],
            <<"0", ".", "0">>, <<"0", ",", " ", "2", "0">>),
     Preset("Logistic Growth", LogisticEq,
            [n \in {"c"} |-> <<"0", ".", "8">>],
            <<"0", ",", " ", "1", "0">>, <<"0", ".", "1">>) >>

\* the presets of show_examples
examples ==
  << Preset("Exponential Decay", DecayEq,
            [n \in {"a"} |-> <<"0", ".", "5">>],
            <<"1", ".", "0">>, <<"0", ",", " ", "5">>),
     Preset("Harmonic Oscillator", HarmonicEq,
            [n \in {"k"} |-> <<"1", ".", "0">>],
            <<"0", ".", "0">>, <<"0", ",", " ", "1", "0">>),
     Preset("Forced Oscillator", ForcedEq,
            [n \in {"k", "b"} |-> IF n = "k" THEN <<"1", ".", "0">> ELSE <<"3", ".", "0">>],
            <<"0", ".", "0">>, <<"0", ",", " ", "2", "0">>),
     Preset("Logistic Growth", LogisticEq,
            [n \in {"c"} |-> <<"0", ".", "8">>],
            <<"0", ".", "1">>, <<"0", ",", " ", "1", "0">>) >>

\* Examples: one more window, with a button for each preset
ShowExamples ==
  /\ Idle /\ ex_wins < MaxWindows
  /\ ex_wins' = ex_wins + 1
  /\ Begin("examples")
  /\ UNCHANGED <<fields, ax, pc, locals, edits, last_ok>>

\* load_example(e, p, i, t): the fields take the preset's texts; the
\* parameter fields the preset does not name keep theirs; nothing is solved
load_example(e, p, i, t) ==
  /\ eq_entry' = e
  /\ param_entries' = [n \in ParamNames |-> IF n \in DOMAIN p THEN p[n] ELSE param_entries[n]]
  /\ ic_entry' = i
  /\ time_entry' = t
  /\ UNCHANGED <<ax, pc, locals, last_ok>>

\* a button of an Examples window
LoadExample(idx) ==
  /\ Idle /\ ex_wins > 0 /\ edits < MaxEdits
  /\ load_example(examples[idx].eq, examples[idx].params, examples[idx].ic, examples[idx].tspan)
  /\ edits' = edits + 1
  /\ Started("load", idx)
  /\ UNCHANGED ex_wins

(***************************************************************************)
(* parse_equation.                                                         *)
(***************************************************************************)
\* parse_equation without the check of the format
NeverMissing(eq_text) == FALSE

\* the check of the equation's format
MissingEquals(eq_text) == ~Contains(eq_text, "=")

\* eq_text.split('=')
SplitEquation(eq_text) == Split(eq_text, "=")

\* the text of a parameter, were it taken from default_params
DefaultText(entries, name) == default_params[name]

\* entry.get() of a parameter field
EntryText(entries, name) == entries[name]

\* what parse_equation does: the text it hands to sympify (empty when it
\* does not get that far), the function it returns (none when it returns
\* None), the class of the exception it caught and the message it showed
ParseResult(text, f, exc, sh) ==
  [rhs |-> text, func |-> f, fault |-> exc, shown |-> sh]

parse_equation(eq_text, entries) ==
  LET parts == SplitEquation(eq_text)
      expr_text == Strip(parts[2])
      filled == { n \in ParamNames : EntryText(entries, n) # <<>> }
      param_values == [n \in filled |-> FloatOf(EntryText(entries, n))]
      expr_sub == Subs(Sympify(expr_text), param_values)
      Caught(text, exc, detail) ==
        ParseResult(text, NoFunc, exc,
                    show_error(<<>>, "Equation parsing error", detail))
  IN
  IF MissingEquals(eq_text)
    THEN Caught(<<>>, "ValueError", "Equation must contain '=' sign")
  ELSE IF Len(parts) < 2
    THEN Caught(<<>>, "IndexError", "list index out of range")
  ELSE IF ~SympifyOk(expr_text)
    THEN Caught(expr_text, "SympifyError", "could not parse")
  ELSE IF \E n \in filled : ~IsFloat(EntryText(entries, n))
    THEN Caught(expr_text, "ValueError", "could not convert string to float")
  ELSE ParseResult(expr_text, [none |-> FALSE, expr |-> expr_sub], "none", <<>>)

(***************************************************************************)
(* solve.                                                                  *)
(***************************************************************************)
\* solve without the check of the number of values
CountAny(t) == FALSE

\* the check of the number of values in the time span
BadCount(t) == Len(t) # 2

\* solve with the except ValueError clause alone
OnlyValueError(exc) ==
  IF exc = "ValueError" THEN "Input error" ELSE "uncaught"

\* the except clauses of solve: the message an exception of class exc is
\* shown with ("uncaught" when no clause takes it).  Every class raised here
\* derives from Exception.
SolveExcept(exc) ==
  IF exc = "ValueError" THEN "Input error" ELSE "Solution error"

\* ode_func, were the exception shown and not raised again
ode_func_swallow(f) ==
  IF FreeNames(f.expr) # {}
    THEN [shown |-> show_error(<<>>, "Evaluation error", "name is not defined"),
          raises |-> "none"]
    ELSE [shown |-> <<>>, raises |-> "none"]

\* ode_func, called by the integrator: the messages it shows and the class
\* of the exception it raises ("none" when it returns a value)
ode_func(f) ==
  IF FreeNames(f.expr) # {}
    THEN [shown |-> show_error(<<>>, "Evaluation error", "name is not defined"),
          raises |-> "NameError"]
    ELSE [shown |-> <<>>, raises |-> "none"]

\* solve returns
Return ==
  /\ pc' = "idle"
  /\ t_span' = <<>> /\ y0' = NoFloat /\ rhs' = <<>> /\ rhs_func' = NoFunc /\ sol' = NoSol

\* an exception of class exc reaches the except clauses of solve, after the
\* messages sh were shown
Except(exc, detail, sh) ==
  /\ fault' = exc
  /\ IF SolveExcept(exc) = "uncaught"
       THEN shown' = sh /\ raised' = exc
       ELSE shown' = show_error(sh, SolveExcept(exc), detail) /\ raised' = "none"
  /\ Return

\* the Solve button
SolveClick ==
  /\ Idle
  /\ pc' = "read_inputs"
  /\ Begin("solve")
  /\ UNCHANGED <<fields, ax, ex_wins, locals, edits, last_ok>>

\* the time span and the initial condition are read
ReadInputs ==
  /\ pc = "read_inputs"
  /\ trace' = Append(trace, "read_inputs")
  /\ \E pieces \in {Split(time_entry, ",")} :
     IF \E i \in 1..Len(pieces) : ~IsFloat(pieces[i])
       THEN Except("ValueError", "could not convert string to float", shown)
     ELSE IF BadCount(pieces)
       THEN Except("ValueError", "Time span must contain exactly two numbers", shown)
     ELSE IF ~IsFloat(ic_entry)
       THEN Except("ValueError", "could not convert string to float", shown)
     ELSE /\ t_span' = [i \in 1..Len(pieces) |-> FloatOf(pieces[i])]
          /\ y0' = FloatOf(ic_entry)
          /\ pc' = "parse_equation"
          /\ UNCHANGED <<rhs, rhs_func, sol, shown, fault, raised>>
  /\ UNCHANGED <<fields, ax, ex_wins, edits, last, loaded, ax0, last_ok>>

\* the equation is parsed; solve returns when there is no function
ParseEquation ==
  /\ pc = "parse_equation"
  /\ trace' = Append(trace, "parse_equation")
  /\ \E r \in {parse_equation(eq_entry, param_entries)} :
     /\ shown' = shown \o r.shown
     /\ fault' = r.fault
     /\ IF r.func.none
          THEN Return
          ELSE /\ rhs' = r.rhs
               /\ rhs_func' = r.func
               /\ pc' = "solve_ivp"
               /\ UNCHANGED <<t_span, y0, sol>>
  /\ UNCHANGED <<fields, ax, ex_wins, edits, last, loaded, raised, ax0, last_ok>>

\* solve_ivp is called
Integrate ==
  /\ pc = "solve_ivp"
  /\ trace' = Append(trace, "solve_ivp")
  /\ \E r \in {ode_func(rhs_func)} :
     IF Len(t_span) # 2
       \* t0, tf = t_span in solve_ivp
       THEN Except("ValueError", "values to unpack", shown)
     ELSE IF r.raises # "none"
       THEN Except(r.raises, "name is not defined", shown \o r.shown)
     ELSE /\ sol' = [f |-> rhs_func.expr, y0 |-> y0,
                     t0 |-> t_span[1], tf |-> t_span[2], n |-> NumPoints]
          /\ shown' = shown \o r.shown
          /\ pc' = "update_plot"
          /\ UNCHANGED <<t_span, y0, rhs, rhs_func, fault, raised>>
  /\ UNCHANGED <<fields, ax, ex_wins, edits, last, loaded, ax0, last_ok>>

\* the solution is drawn
UpdatePlot ==
  /\ pc = "update_plot"
  /\ trace' = Append(trace, "update_plot")
  /\ ax' = update_plot(ax, sol)
  /\ last_ok' = <<Line(sol)>>
  /\ Return
  /\ UNCHANGED <<fields, ex_wins, edits, last, loaded, shown, fault, raised, ax0>>

SolveStep == ReadInputs \/ ParseEquation \/ Integrate \/ UpdatePlot

Next ==
  \/ \E text \in EqInputs : EditEquation(text)
  \/ \E text \in IcInputs : EditInitialCondition(text)
  \/ \E text \in TimeInputs : EditTimeSpan(text)
  \/ \E name \in ParamNames, text \in ParamInputs : EditParameter(name, text)
  \/ ClearPlot
  \/ ShowExamples
  \/ \E idx \in 1..Len(examples) : LoadExample(idx)
  \/ SolveClick
  \/ ReadInputs
  \/ ParseEquation
  \/ Integrate
  \/ UpdatePlot

Spec == Init /\ [][Next]_vars

\* a callback that runs is run to its end
FairSpec == Spec /\ WF_vars(SolveStep)

(***************************************************************************)
(* Properties.                                                             *)
(***************************************************************************)
Range(f) == { f[i] : i \in DOMAIN f }

\* the callback name has run and returned, and no other has started since
Done(name) == pc = "idle" /\ last = name

EqFormatMessage ==
  [prefix |-> "Equation parsing error", detail |-> "Equation must contain '=' sign"]

\* the time span text splits on comma into exactly two numbers
TimeSpanValid ==
  \E pieces \in {Split(time_entry, ",")} :
    Len(pieces) = 2 /\ \A i \in 1..Len(pieces) : IsFloat(pieces[i])

InputsValid == TimeSpanValid /\ IsFloat(ic_entry)

\* C1, as stated: a Solve of an equation text without '=' shows the
\* equation-format error, whatever the other fields hold, and does not
\* reach the integration call.
C1_FormatErrorAlways ==
  (Done("solve") /\ ~Contains(eq_entry, "="))
    => (shown = <<EqFormatMessage>> /\ "solve_ivp" \notin Range(trace))

\* C1, amended: a Solve of an equation text without '=' never reaches the
\* integration call and shows exactly one error: the equation-format error
\* when the time span and the initial condition are valid, an input error
\* (those fields are read first) when they are not.
C1_NoEqualsNoIntegration ==
  (Done("solve") /\ ~Contains(eq_entry, "="))
    => /\ "solve_ivp" \notin Range(trace)
       /\ raised = "none"
       /\ Len(shown) = 1
       /\ IF InputsValid
            THEN shown = <<EqFormatMessage>>
            ELSE shown[1].prefix = "Input error"

C1_Witness ==
  /\ Done("solve") /\ ~Contains(eq_entry, "=")
  /\ shown = <<EqFormatMessage>>
  /\ trace = <<"read_inputs", "parse_equation">>

\* C2: a Solve of a time span text that does not split on comma into
\* exactly two numbers shows an input error and stops there: the equation is
\* not parsed and the integration call is not reached.
C2_BadTimeSpanInputError ==
  (Done("solve") /\ ~TimeSpanValid)
    => /\ Len(shown) = 1 /\ shown[1].prefix = "Input error"
       /\ trace = <<"read_inputs">>
       /\ raised = "none"

C2_Witness ==
  /\ Done("solve")
  /\ Len(Split(time_entry, ",")) # 2
  /\ \A piece \in Range(Split(time_entry, ",")) : IsFloat(piece)
  /\ shown = <<[prefix |-> "Input error",
                detail |-> "Time span must contain exactly two numbers"]>>

\* C3: a preset of the Examples window puts its literal texts into the
\* equation field, the parameter fields it names, the initial condition
\* field and the time span field, and starts no solve (the chart is as it
\* was).
C3_PresetOverwritesFields ==
  (last = "load")
    => /\ pc = "idle" /\ trace = <<>> /\ ax = ax0
       /\ loaded \in 1..4
       /\ loaded = 1 =>
            /\ eq_entry = DecayEq
            /\ param_entries["a"] = <<"0", ".", "5">>
            /\ ic_entry = <<"1", ".", "0">>
            /\ time_entry = <<"0", ",", " ", "5">>
       /\ loaded = 2 =>
            /\ eq_entry = HarmonicEq
            /\ param_entries["k"] = <<"1", ".", "0">>
            /\ ic_entry = <<"0", ".", "0">>
            /\ time_entry = <<"0", ",", " ", "1", "0">>
       /\ loaded = 3 =>
            /\ eq_entry = ForcedEq
            /\ param_entries["k"] = <<"1", ".", "0">>
            /\ param_entries["b"] = <<"3", ".", "0">>
            /\ ic_entry = <<"0", ".", "0">>
            /\ time_entry = <<"0", ",", " ", "2", "0">>
       /\ loaded = 4 =>
            /\ eq_entry = LogisticEq
            /\ param_entries["c"] = <<"0", ".", "8">>
            /\ ic_entry = <<"0", ".", "1">>
            /\ time_entry = <<"0", ",", " ", "1", "0">>

\* Logistic Growth loaded over a field the user had retyped, a curve on the chart
C3_Witness ==
  /\ last = "load" /\ loaded = 4 /\ edits = 2
  /\ eq_entry = LogisticEq /\ ic_entry = <<"0", ".", "1">>
  /\ ax.lines # <<>>

\* C4: no exception leaves solve, and a Solve in which an exception was
\* raised (a missing '=', a text sympify rejects, a field that is no number,
\* a name unbound when the integrator evaluates the function) has shown an
\* error message.
C4_ErrorsCaughtAndShown ==
  /\ raised = "none"
  /\ (Done("solve") /\ fault # "none") => Len(shown) >= 1

\* an evaluation error: shown by ode_func, raised again, shown by solve
C4_Witness ==
  /\ Done("solve") /\ fault = "NameError"
  /\ Len(shown) = 2
  /\ shown[1].prefix = "Evaluation error" /\ shown[2].prefix = "Solution error"

\* C5: a Solve that failed or showed an error leaves the chart as it was
\* when the button was pressed.
C5_FailedSolveKeepsChart ==
  (Done("solve") /\ (fault # "none" \/ shown # <<>>)) => ax = ax0

\* an error during the integration, with a curve on the chart
C5_Witness ==
  /\ Done("solve") /\ fault = "NameError"
  /\ "solve_ivp" \in Range(trace)
  /\ ax.lines # <<>>

\* C6: after Clear the chart holds no curve, has the title 'Solution Plot'
\* and the grid on: it is the chart of start-up.
C6_ClearRestoresChart ==
  Done("clear")
    => /\ ax.lines = <<>>
       /\ ax.title = "Solution Plot"
       /\ ax.grid
       /\ ax = create_plot_area

C6_Witness == Done("clear") /\ ax0.lines # <<>> /\ ax0.title = ""

\* the solution a Solve of the fields as they are now computes
SolutionOfFields ==
  [f |-> Subs(Tokenize(Strip(Split(eq_entry, "=")[2])),
              [n \in { m \in ParamNames : param_entries[m] # <<>> } |->
                 FloatOf(param_entries[n])]),
   y0 |-> FloatOf(ic_entry),
   t0 |-> FloatOf(Split(time_entry, ",")[1]),
   tf |-> FloatOf(Split(time_entry, ",")[2]),
   n |-> 1000]

\* C7: the curve a Solve plots is computed from the equation, the
\* parameter fields, the initial condition and the time span as the fields
\* hold them at that click, and from nothing earlier.
C7_CurveFromCurrentFields ==
  (Done("solve") /\ fault = "none" /\ shown = <<>>)
    => ax.lines = <<[data |-> SolutionOfFields, label |-> "Numerical Solution"]>>

\* the default equation solved again after only parameter a was retyped: the
\* curve on the chart changed
C7_Witness ==
  /\ Done("solve") /\ fault = "none"
  /\ eq_entry = DefaultEq /\ ic_entry = DefaultIc /\ time_entry = DefaultTime
  /\ param_entries = [default_params EXCEPT !["a"] = <<"2", ".", "0">>]
  /\ Len(ax0.lines) = 1 /\ Len(ax.lines) = 1
  /\ ax0.lines[1].data.f # ax.lines[1].data.f
  /\ ax0.lines[1].data.y0 = ax.lines[1].data.y0

\* C8: the chart holds at most one curve, and the one it holds is the curve
\* of the most recent Solve that succeeded.
C8_AtMostTheLastCurve ==
  /\ Len(ax.lines) <= 1
  /\ ax.lines # <<>> => ax.lines = last_ok

\* a second Solve replaced the curve of the first
C8_Witness ==
  /\ Done("solve") /\ fault = "none"
  /\ Len(ax0.lines) = 1 /\ Len(ax.lines) = 1
  /\ ax0.lines # ax.lines

\* C9, as stated: the text handed to sympify is all of the equation text
\* after its first '=', stripped.
C9_RhsIsAllAfterFirstEquals ==
  (pc = "solve_ivp")
    => rhs = Strip(SubSeq(eq_entry, Find(eq_entry, "=", 1) + 1, Len(eq_entry)))

SolvePositions == {"read_inputs", "parse_equation", "solve_ivp", "update_plot"}

\* the mode of the window
Mode == IF pc = "idle" THEN "idle" ELSE "solving"

====
